---- MODULE Spec2Model ----
(***************************************************************************)
(* Query planner of RMDB (src/src/optimizer/planner.cpp): planning of one  *)
(* statement, from the analysed Query to the plan tree.                    *)
(***************************************************************************)
EXTENDS Integers, Sequences, FiniteSets, TLC

VARIABLES
    kind,            \* statement kind of query->parse
    tables,          \* query->tables
    conds,           \* query->conds
    cols,            \* query->cols
    is_select_star,  \* query->is_select_star
    order,           \* SelectStmt has_sort / order
    enable_nestedloop_join,
    enable_sortmerge_join,
    fhs,             \* sm_manager_->fhs_ : open file headers
    pc,              \* position in generate_select_plan / do_planner
    table_scan_executors,
    scantbl,
    joined_tables,
    join_conds,      \* local 'conds' of make_one_rel
    plan,            \* plan built so far
    query0,          \* the Query as handed to the planner
    first_plan,      \* the plan an earlier call returned for the same Query object
    push_log,        \* the calls of push_conds on a tree: condition and return value
    greedy,          \* a call of greedy_join_order_optimization: its locals and position
    exec,            \* a SeqScanExecutor over a table file, and the calls made on it
    probe            \* a Condition under std::swap / swap_op, with its operand values

vars == <<kind, tables, conds, cols, is_select_star, order,
          enable_nestedloop_join, enable_sortmerge_join, fhs, pc,
          table_scan_executors, scantbl, joined_tables, join_conds, plan,
          query0, first_plan, push_log, greedy, exec, probe>>

\* the Query and its environment, apart from tables and conds
queryRest == <<kind, cols, is_select_star, order, enable_nestedloop_join,
               enable_sortmerge_join, fhs, query0, first_plan, push_log, greedy, exec, probe>>

----------------------------------------------------------------------------
(* Bounds *)

MaxConds == 2
MaxInt == 2
MaxSwaps == 2
MaxPushes == 2
MaxRecords == 3

(* Catalog *)

Tables == {"a", "b", "c", "d"}

\* lexicographic order of the column names in use (std::set<std::string>)
ColOrder == <<"k", "v", "w">>

TabCols(t) ==
    CASE t = "c" -> <<"k", "v", "w">>
      [] OTHER   -> <<"k", "v">>

\* IndexMeta lists of each table
TabIndexes(t) ==
    CASE t = "a" -> {<<"k">>}
      [] t = "b" -> {<<"k", "v">>}
      [] t = "d" -> {<<"v">>}
      [] OTHER   -> {}

NoHdr == [num_pages |-> 0, num_records_per_page |-> 0, open |-> FALSE]
Hdr(p, r) == [num_pages |-> p, num_records_per_page |-> r, open |-> TRUE]

----------------------------------------------------------------------------
(* Data model *)

CompOps == {"OP_EQ", "OP_NE", "OP_LT", "OP_GT", "OP_LE", "OP_GE"}

TabCol(t, c) == [tab_name |-> t, col_name |-> c]
NoCol == TabCol("", "")

ColCond(l, o, r) ==
    [id |-> 0, lhs_col |-> l, op |-> o, is_rhs_val |-> FALSE, rhs_col |-> r, rhs_val |-> 0]
ValCond(l, o, v) ==
    [id |-> 0, lhs_col |-> l, op |-> o, is_rhs_val |-> TRUE, rhs_col |-> NoCol, rhs_val |-> v]

NullPlan == [tag |-> "Null"]

ScanPlan(k, t, cs, ix) ==
    [tag |-> "Scan", kind |-> k, tab_name |-> t, conds |-> cs, fed_conds |-> cs,
     index_col_names |-> ix]

JoinPlan(k, l, r, cs) ==
    [tag |-> "Join", kind |-> k, left |-> l, right |-> r, conds |-> cs]

FilterPlan_drop_first(sub, cs) == [tag |-> "Filter", subplan |-> sub, conds |-> Tail(cs)]

FilterPlan(sub, cs) == [tag |-> "Filter", subplan |-> sub, conds |-> cs]

ProjectionPlan(sub, cs) == [tag |-> "Projection", subplan |-> sub, sel_cols |-> cs]

SortPlan(sub, c, desc) ==
    [tag |-> "Sort", subplan |-> sub, sel_col |-> c, is_desc |-> desc]

----------------------------------------------------------------------------
(* Sequence helpers *)

Range(s) == {s[i] : i \in DOMAIN s}

IsInjective(s) == \A i, j \in DOMAIN s : s[i] = s[j] => i = j

ColRank(c) == CHOOSE i \in DOMAIN ColOrder : ColOrder[i] = c

RECURSIVE SortedCols(_)
\* iteration order of a std::set<std::string> of column names
SortedCols(S) ==
    IF S = {} THEN <<>>
    ELSE LET m == CHOOSE c \in S : \A d \in S : ColRank(c) <= ColRank(d)
         IN  <<m>> \o SortedCols(S \ {m})

----------------------------------------------------------------------------
(* Operator algebra *)

swap_op_rel_mut ==
    [o \in CompOps |->
        CASE o = "OP_LT" -> "OP_GE"
          [] o = "OP_GT" -> "OP_LT"
          [] o = "OP_LE" -> "OP_GE"
          [] o = "OP_GE" -> "OP_LE"
          [] OTHER -> o]

\* swap table of make_one_rel
swap_op_rel ==
    [o \in CompOps |->
        CASE o = "OP_EQ" -> "OP_EQ"
          [] o = "OP_NE" -> "OP_NE"
          [] o = "OP_LT" -> "OP_GT"
          [] o = "OP_GT" -> "OP_LT"
          [] o = "OP_LE" -> "OP_GE"
          [] o = "OP_GE" -> "OP_LE"]

swap_op_push_keep_lt ==
    [o \in CompOps |->
        CASE o = "OP_GT" -> "OP_LT"
          [] o = "OP_LE" -> "OP_GE"
          [] o = "OP_GE" -> "OP_LE"
          [] OTHER -> o]

\* swap table of push_conds
swap_op_push ==
    [o \in CompOps |->
        CASE o = "OP_EQ" -> "OP_EQ"
          [] o = "OP_NE" -> "OP_NE"
          [] o = "OP_LT" -> "OP_GT"
          [] o = "OP_GT" -> "OP_LT"
          [] o = "OP_LE" -> "OP_GE"
          [] o = "OP_GE" -> "OP_LE"]

\* std::swap(lhs_col, rhs_col); op = swap_op.at(op)
SwapCond(c, tbl) == [c EXCEPT !.lhs_col = c.rhs_col, !.rhs_col = c.lhs_col, !.op = tbl[c.op]]

\* meaning of a comparison operator on two integers
EvalOp(o, x, y) ==
    CASE o = "OP_EQ" -> x = y
      [] o = "OP_NE" -> x # y
      [] o = "OP_LT" -> x < y
      [] o = "OP_GT" -> x > y
      [] o = "OP_LE" -> x <= y
      [] o = "OP_GE" -> x >= y

----------------------------------------------------------------------------
(* get_index_cols *)

\* TabMeta::is_index
IsIndex(t, cs) == cs \in TabIndexes(t)

IndexCandidates(t, cs) ==
    SortedCols({cs[i].lhs_col.col_name : i \in
        {j \in DOMAIN cs : cs[j].is_rhs_val /\ cs[j].lhs_col.tab_name = t
                           /\ cs[j].op \in CompOps}})

get_index_cols(t, cs) ==
    LET cand == IndexCandidates(t, cs)
        singles == {i \in DOMAIN cand : IsIndex(t, <<cand[i]>>)}
    IN  IF cand # <<>> /\ singles # {}
        THEN [found |-> TRUE,
              index_col_names |-> <<cand[CHOOSE i \in singles : \A j \in singles : i <= j]>>]
        ELSE IF cand # <<>> /\ IsIndex(t, cand)
        THEN [found |-> TRUE, index_col_names |-> cand]
        ELSE [found |-> FALSE, index_col_names |-> cand]

----------------------------------------------------------------------------
(* pop_conds, pop_scan, push_conds *)

PopTest_literal_only(c, t) ==
    t = c.lhs_col.tab_name /\ c.is_rhs_val

PopTest(c, t) ==
    (t = c.lhs_col.tab_name /\ c.is_rhs_val) \/ (c.lhs_col.tab_name = c.rhs_col.tab_name)

pop_conds(cs, t) ==
    [solved |-> SelectSeq(cs, LAMBDA c : PopTest(c, t)),
     rest   |-> SelectSeq(cs, LAMBDA c : ~PopTest(c, t))]

\* index of the scan pop_scan returns, 0 for nullptr
PopScanIdx(t, plans) ==
    LET hits == {i \in DOMAIN plans : plans[i].tab_name = t}
    IN  IF hits = {} THEN 0 ELSE CHOOSE i \in hits : \A j \in hits : i <= j

RECURSIVE push_conds(_, _)
\* result: res = the return code, plan = the tree after the call
push_conds(cond, p) ==
    IF p.tag = "Scan" THEN
        [res |-> IF p.tab_name = cond.lhs_col.tab_name THEN 1
                 ELSE IF p.tab_name = cond.rhs_col.tab_name THEN 2
                 ELSE 0,
         plan |-> p]
    ELSE IF p.tag = "Join" THEN
        LET L == push_conds(cond, p.left) IN
        IF L.res = 3 THEN [res |-> 3, plan |-> [p EXCEPT !.left = L.plan]]
        ELSE
        LET R == push_conds(cond, p.right) IN
        IF R.res = 3 THEN [res |-> 3, plan |-> [p EXCEPT !.right = R.plan]]
        ELSE IF L.res = 0 \/ R.res = 0 THEN [res |-> L.res + R.res, plan |-> p]
        ELSE LET c2 == IF L.res = 2 THEN SwapCond(cond, swap_op_push) ELSE cond
             IN  [res |-> 3, plan |-> [p EXCEPT !.conds = Append(p.conds, c2)]]
    ELSE [res |-> 0, plan |-> p]

----------------------------------------------------------------------------
(* Join ordering *)

\* SIZE_MAX stands for the largest size_t: above every cardinality of the catalogs
SIZE_MAX == 2147483647
DefaultCardinality == 1000

\* estimated_pages * num_records_per_page * 0.7, truncated to size_t; the file
\* headers of the catalogs keep the product away from multiples of 10

\* largest e with 2^e <= n, for n >= 1
RECURSIVE Log2Floor(_)
Log2Floor(n) == IF n < 2 THEN 0 ELSE 1 + Log2Floor(n \div 2)

\* size_t(x * 0.7): the product is taken in IEEE-754 double arithmetic and then
\* truncated.  The double nearest to 0.7 is 0.7 - 0.4 * 2^-53, so the exact
\* product lies (4/7) * N * 2^-53 below N = 7x/10; when N is an integer (x a
\* multiple of 10) and that distance exceeds half an ulp of N, the product
\* rounds to the double just below N and truncates to N - 1.
TimesPoint7(x) ==
    LET N == (x * 7) \div 10
    IN  IF x % 10 = 0 /\ N > 0 /\ 4 * N > 7 * (2 ^ Log2Floor(N)) THEN N - 1 ELSE N

estimate_table_cardinality(t) ==
    IF ~fhs[t].open THEN DefaultCardinality
    ELSE LET estimated_pages == IF fhs[t].num_pages > 1 THEN fhs[t].num_pages - 1 ELSE 0
             estimated_records == TimesPoint7(estimated_pages * fhs[t].num_records_per_page)
         IN  IF estimated_records > 0 THEN estimated_records ELSE 1

TableStats(ts) == [i \in DOMAIN ts |-> [first |-> ts[i], second |-> estimate_table_cardinality(ts[i])]]

\* the orders std::sort may leave table_stats in (ties in any order)
SortedStats(stats) ==
    LET n == Len(stats)
        perms == {p \in [1..n -> 1..n] : IsInjective(p)}
    IN  {[i \in 1..n |-> stats[p[i]]] : p \in
            {q \in perms : \A i \in 1..(n - 1) : stats[q[i]].second <= stats[q[i + 1]].second}}

\* join_graph[t]
JoinGraph(cs, t) ==
    {cs[i].rhs_col.tab_name : i \in {j \in DOMAIN cs : ~cs[j].is_rhs_val /\ cs[j].lhs_col.tab_name = t}}
    \cup
    {cs[i].lhs_col.tab_name : i \in {j \in DOMAIN cs : ~cs[j].is_rhs_val /\ cs[j].rhs_col.tab_name = t}}

\* cardinality_map[t]: the last entry of table_stats for t
CardinalityMap(stats, t) ==
    LET hits == {i \in DOMAIN stats : stats[i].first = t}
    IN  stats[CHOOSE i \in hits : \A j \in hits : j <= i].second

HasJoinCondition_never(cs, used, t) == FALSE

HasJoinCondition(cs, used, t) == \E u \in used : u \in JoinGraph(cs, t)

RECURSIVE GreedyScan(_, _, _, _, _, _)
\* the for loop over table_stats inside the while loop: best_table / min_cost
GreedyScan(stats, cs, used, i, best_table, min_cost) ==
    IF i > Len(stats) THEN best_table
    ELSE LET table == stats[i].first
             other_tables_have_joins ==
                 \E k \in DOMAIN stats :
                     /\ stats[k].first \notin used
                     /\ stats[k].first # table
                     /\ HasJoinCondition(cs, used, stats[k].first)
             cost == CardinalityMap(stats, table)
         IN  IF table \in used
             THEN GreedyScan(stats, cs, used, i + 1, best_table, min_cost)
             ELSE IF ~HasJoinCondition(cs, used, table) /\ other_tables_have_joins
             THEN GreedyScan(stats, cs, used, i + 1, best_table, min_cost)
             ELSE IF cost < min_cost
             THEN GreedyScan(stats, cs, used, i + 1, table, cost)
             ELSE GreedyScan(stats, cs, used, i + 1, best_table, min_cost)

RECURSIVE GreedyLoop(_, _, _, _, _)
\* the while loop of greedy_join_order_optimization
GreedyLoop(stats, sorted, cs, result, used) ==
    IF Cardinality(used) >= Len(stats) THEN result
    ELSE LET best_table == GreedyScan(stats, cs, used, 1, "", SIZE_MAX)
             rest == {i \in DOMAIN sorted : sorted[i].first \notin used}
             fallback == sorted[CHOOSE i \in rest : \A j \in rest : i <= j].first
             next == IF best_table # "" THEN best_table ELSE fallback
         IN  GreedyLoop(stats, sorted, cs, Append(result, next), used \cup {next})

greedy_join_order_optimization(stats, sorted, cs) ==
    IF Len(stats) <= 2 THEN [i \in DOMAIN sorted |-> sorted[i].first]
    ELSE GreedyLoop(stats, sorted, cs, <<sorted[1].first, sorted[2].first>>,
                    {sorted[1].first, sorted[2].first})

----------------------------------------------------------------------------
(* Refinement passes *)

RECURSIVE extract_conditions_from_plan(_)
extract_conditions_from_plan(p) ==
    IF p.tag = "Scan" THEN p.conds
    ELSE IF p.tag = "Join"
    THEN extract_conditions_from_plan(p.left) \o extract_conditions_from_plan(p.right)
    ELSE <<>>

RECURSIVE clear_conditions_from_plan(_)
clear_conditions_from_plan(p) ==
    IF p.tag = "Scan" THEN [p EXCEPT !.conds = <<>>]
    ELSE IF p.tag = "Join"
    THEN [p EXCEPT !.left = clear_conditions_from_plan(p.left),
                   !.right = clear_conditions_from_plan(p.right)]
    ELSE p

RECURSIVE collect_table_names_from_plan(_)
collect_table_names_from_plan(p) ==
    IF p.tag = "Scan" THEN {p.tab_name}
    ELSE IF p.tag = "Join"
    THEN collect_table_names_from_plan(p.left) \cup collect_table_names_from_plan(p.right)
    ELSE IF p.tag \in {"Filter", "Projection"}
    THEN collect_table_names_from_plan(p.subplan)
    ELSE {}

RECURSIVE push_filters_down(_)
push_filters_down(p) ==
    IF p.tag = "Join" THEN
        LET l1 == push_filters_down(p.left)
            r1 == push_filters_down(p.right)
            p1 == [p EXCEPT !.left = l1, !.right = r1]
            all_conditions == extract_conditions_from_plan(p1)
            left_tables == collect_table_names_from_plan(l1)
            right_tables == collect_table_names_from_plan(r1)
            left_conditions ==
                SelectSeq(all_conditions,
                          LAMBDA c : c.is_rhs_val /\ c.lhs_col.tab_name \in left_tables)
            right_conditions ==
                SelectSeq(all_conditions,
                          LAMBDA c : /\ c.is_rhs_val
                                     /\ c.lhs_col.tab_name \notin left_tables
                                     /\ c.lhs_col.tab_name \in right_tables)
            l2 == IF left_conditions # <<>> THEN FilterPlan(l1, left_conditions) ELSE l1
            r2 == IF right_conditions # <<>> THEN FilterPlan(r1, right_conditions) ELSE r1
        IN  clear_conditions_from_plan([p1 EXCEPT !.left = l2, !.right = r2])
    ELSE IF p.tag = "Scan" THEN
        LET table_conditions ==
                SelectSeq(p.conds,
                          LAMBDA c : c.is_rhs_val /\ c.lhs_col.tab_name = p.tab_name)
        IN  IF table_conditions # <<>>
            THEN FilterPlan([p EXCEPT !.conds = <<>>, !.fed_conds = <<>>], table_conditions)
            ELSE p
    ELSE p

\* the columns a condition adds to needed_columns ("tab.col" strings, kept as pairs)
CondColumns(c) == {c.lhs_col} \cup (IF c.is_rhs_val THEN {} ELSE {c.rhs_col})

RECURSIVE collect_join_columns_from_plan(_)
collect_join_columns_from_plan(p) ==
    IF p.tag = "Join"
    THEN UNION {CondColumns(p.conds[i]) : i \in DOMAIN p.conds}
         \cup collect_join_columns_from_plan(p.left)
         \cup collect_join_columns_from_plan(p.right)
    ELSE IF p.tag \in {"Projection", "Filter"}
    THEN collect_join_columns_from_plan(p.subplan)
    ELSE {}

\* table_needed_cols of a scan: the needed columns of its table in set order
TableNeededCols(needed, t) ==
    LET names == SortedCols({c.col_name : c \in {d \in needed : d.tab_name = t}})
    IN  [i \in DOMAIN names |-> TabCol(t, names[i])]

RECURSIVE insert_project_nodes_always(_, _)
insert_project_nodes_always(p, needed) ==
    IF p.tag = "Join"
    THEN [p EXCEPT !.left = insert_project_nodes_always(p.left, needed),
                   !.right = insert_project_nodes_always(p.right, needed)]
    ELSE IF p.tag = "Filter"
    THEN [p EXCEPT !.subplan = insert_project_nodes_always(p.subplan, needed)]
    ELSE IF p.tag = "Scan"
    THEN LET table_needed_cols == TableNeededCols(needed, p.tab_name)
         IN  IF table_needed_cols # <<>>
             THEN ProjectionPlan(p, table_needed_cols)
             ELSE p
    ELSE p

RECURSIVE insert_project_nodes(_, _)
insert_project_nodes(p, needed) ==
    IF p.tag = "Join"
    THEN [p EXCEPT !.left = insert_project_nodes(p.left, needed),
                   !.right = insert_project_nodes(p.right, needed)]
    ELSE IF p.tag = "Filter"
    THEN [p EXCEPT !.subplan = insert_project_nodes(p.subplan, needed)]
    ELSE IF p.tag = "Scan"
    THEN LET table_needed_cols == TableNeededCols(needed, p.tab_name)
         IN  IF table_needed_cols # <<>>
                /\ Len(table_needed_cols) # Len(TabCols(p.tab_name))
             THEN ProjectionPlan(p, table_needed_cols)
             ELSE p
    ELSE p

NeededColumns(qcols, qconds, p) ==
    Range(qcols)
    \cup UNION {CondColumns(qconds[i]) : i \in DOMAIN qconds}
    \cup collect_join_columns_from_plan(p)

apply_projection_pushdown_mut(p, qtables, qcols, qconds, star) ==
    LET needed == NeededColumns(qcols, qconds, p)
        p1 == IF Len(qtables) > 1 /\ ~star /\ Len(qcols) > 0
              THEN insert_project_nodes(p, needed)
              ELSE p
    IN  IF star THEN p1 ELSE ProjectionPlan(p1, qcols)

apply_projection_pushdown(p, qtables, qcols, qconds, star) ==
    LET needed == NeededColumns(qcols, qconds, p)
        p1 == IF Len(qtables) > 1 /\ ~star /\ Len(qcols) > 0
              THEN insert_project_nodes(p, needed)
              ELSE p
    IN  ProjectionPlan(p1, qcols)

\* all_cols of generate_sort_plan: ColMeta of every table of the query, in order
RECURSIVE AllCols(_)
AllCols(ts) ==
    IF ts = <<>> THEN <<>>
    ELSE [i \in DOMAIN TabCols(Head(ts)) |-> TabCol(Head(ts), TabCols(Head(ts))[i])]
         \o AllCols(Tail(ts))

generate_sort_plan_desc_unless_asc(p, qtables, ord) ==
    IF ~ord.has_sort THEN p
    ELSE LET all_cols == AllCols(qtables)
             hits == {i \in DOMAIN all_cols : all_cols[i].col_name = ord.col_name}
             sel_col == IF hits = {} THEN NoCol
                        ELSE all_cols[CHOOSE i \in hits : \A j \in hits : i <= j]
         IN  SortPlan(p, sel_col, ord.orderby_dir # "OrderBy_ASC")

generate_sort_plan(p, qtables, ord) ==
    IF ~ord.has_sort THEN p
    ELSE LET all_cols == AllCols(qtables)
             hits == {i \in DOMAIN all_cols : all_cols[i].col_name = ord.col_name}
             sel_col == IF hits = {} THEN NoCol
                        ELSE all_cols[CHOOSE i \in hits : \A j \in hits : i <= j]
         IN  SortPlan(p, sel_col, ord.orderby_dir = "OrderBy_DESC")

----------------------------------------------------------------------------
(* make_one_rel *)

MakeScan_noclear(t, curr_conds) ==
    LET ix == get_index_cols(t, curr_conds)
    IN  IF ~ix.found
        THEN ScanPlan("T_SeqScan", t, curr_conds, ix.index_col_names)
        ELSE ScanPlan("T_IndexScan", t, curr_conds, ix.index_col_names)

\* access path of one table: get_index_cols, then SeqScan or IndexScan
MakeScan(t, curr_conds) ==
    LET ix == get_index_cols(t, curr_conds)
    IN  IF ~ix.found
        THEN ScanPlan("T_SeqScan", t, curr_conds, <<>>)
        ELSE ScanPlan("T_IndexScan", t, curr_conds, ix.index_col_names)

RECURSIVE BuildScans(_, _)
\* the first loop of make_one_rel: one scan per table, pop_conds on the shrinking list
BuildScans(ts, cs) ==
    IF ts = <<>> THEN [scans |-> <<>>, rest |-> cs]
    ELSE LET popped == pop_conds(cs, Head(ts))
             more == BuildScans(Tail(ts), popped.rest)
         IN  [scans |-> <<MakeScan(Head(ts), popped.solved)>> \o more.scans,
              rest |-> more.rest]

pop_scan_unmarked(tbl, t, joined, plans) ==
    LET i == PopScanIdx(t, plans)
    IN  IF i = 0 THEN [plan |-> NullPlan, scantbl |-> tbl, joined |-> joined]
        ELSE [plan |-> plans[i], scantbl |-> tbl,
              joined |-> Append(joined, plans[i].tab_name)]

\* pop_scan: result plan, scantbl and joined_tables after the call
pop_scan(tbl, t, joined, plans) ==
    LET i == PopScanIdx(t, plans)
    IN  IF i = 0 THEN [plan |-> NullPlan, scantbl |-> tbl, joined |-> joined]
        ELSE [plan |-> plans[i], scantbl |-> [tbl EXCEPT ![i] = 1],
              joined |-> Append(joined, plans[i].tab_name)]

SeedJoinKind_prefer_sm(nl, sm) ==
    IF sm THEN "T_SortMerge" ELSE "T_NestLoop"

\* join algorithm of the first join
SeedJoinKind(nl, sm) ==
    IF nl /\ sm THEN "T_NestLoop"
    ELSE IF nl THEN "T_NestLoop"
    ELSE "T_SortMerge"

RECURSIVE Cartesian(_, _, _, _)
\* the last loop of make_one_rel
Cartesian(i, tbl, plans, root) ==
    IF i > Len(plans) THEN root
    ELSE IF tbl[i] = -1
    THEN Cartesian(i + 1, tbl, plans, JoinPlan("T_NestLoop", plans[i], root, <<>>))
    ELSE Cartesian(i + 1, tbl, plans, root)

----------------------------------------------------------------------------
(* Inputs *)

WithIds(cs) == [i \in DOMAIN cs |-> [cs[i] EXCEPT !.id = i]]

SeqsUpTo(S, n) == UNION {[1..m -> S] : m \in 0..n}

Perms(S) == {s \in [1..Cardinality(S) -> S] : IsInjective(s)}

\* FROM lists: the tables a, b, c in any order
TableLists == {s \in UNION {[1..m -> Tables \ {"d"}] : m \in 1..3} : IsInjective(s)}

\* FROM lists of four tables (d last)
TableLists4 == {Append(s, "d") : s \in Perms(Tables \ {"d"})}

JoinCondsOf(ts, ops) ==
    {ColCond(TabCol(t[1], "k"), o, TabCol(t[2], "k")) :
        t \in {u \in Range(ts) \X Range(ts) : u[1] # u[2]}, o \in ops}

LitCondsK(ts) == {ValCond(TabCol(t, "k"), "OP_EQ", 1) : t \in Range(ts)}

LitCondsV(ts) == {ValCond(TabCol(t, "v"), "OP_GT", 0) : t \in Range(ts)}

SelfCondsOf(ts) == {ColCond(TabCol(t, "k"), "OP_LT", TabCol(t, "v")) : t \in Range(ts)}

NoOrder == [has_sort |-> FALSE, col_name |-> "", orderby_dir |-> "OrderBy_DEFAULT"]
OrderBy(c, d) == [has_sort |-> TRUE, col_name |-> c, orderby_dir |-> d]

Orders == {NoOrder, OrderBy("k", "OrderBy_DESC"), OrderBy("v", "OrderBy_ASC"),
           OrderBy("w", "OrderBy_DEFAULT")}

\* a(1000, no open file), b(10), c(105), d(10)
Catalog1 ==
    [t \in Tables |->
        CASE t = "a" -> NoHdr
          [] t = "b" -> Hdr(2, 15)
          [] t = "c" -> Hdr(11, 15)
          [] OTHER   -> Hdr(2, 15)]

\* a(1), b(105), c(105), d(1000)
Catalog2 ==
    [t \in Tables |->
        CASE t = "a" -> Hdr(1, 15)
          [] t = "b" -> Hdr(11, 15)
          [] t = "c" -> Hdr(11, 15)
          [] OTHER   -> NoHdr]

\* a(62), b(105), c(1), d(1000)
Catalog3 ==
    [t \in Tables |->
        CASE t = "a" -> Hdr(10, 10)
          [] t = "b" -> Hdr(11, 15)
          [] t = "c" -> Hdr(1, 15)
          [] OTHER   -> NoHdr]

NoGreedy == [pc |-> "idle", table_stats |-> <<>>, sorted_stats |-> <<>>, result |-> <<>>,
             used_tables |-> {}]

\* no record (Next returns nullptr)
NullRecord == [rid |-> 0, v |-> -1]

NoCall == [call |-> "", threw |-> FALSE, rec |-> NullRecord]

NoExec == [file |-> <<>>, fed_conds |-> <<>>, scan |-> 0, rid |-> 0, last |-> NoCall,
           tick |-> 0, driver |-> "", yield |-> <<>>]

NoProbe == [cond |-> ColCond(NoCol, "OP_EQ", NoCol), cond0 |-> ColCond(NoCol, "OP_EQ", NoCol),
            x |-> 0, y |-> 0, swaps |-> 0]

Query(k, ts, cs, sel, star, ord, nl, sm, cat) ==
    /\ kind = k
    /\ tables = ts
    /\ conds = WithIds(cs)
    /\ cols = sel
    /\ is_select_star = star
    /\ order = ord
    /\ enable_nestedloop_join = nl
    /\ enable_sortmerge_join = sm
    /\ fhs = cat
    /\ pc = "start"
    /\ table_scan_executors = <<>>
    /\ scantbl = <<>>
    /\ joined_tables = <<>>
    /\ join_conds = <<>>
    /\ plan = NullPlan
    /\ query0 = [tables |-> ts, conds |-> WithIds(cs)]
    /\ first_plan = NullPlan
    /\ push_log = <<>>
    /\ greedy = NoGreedy
    /\ exec = NoExec
    /\ probe = NoProbe

\* SELECT over up to three tables with every mix of join, literal and
\* self-referential predicates
InitJoin ==
    \E ts \in TableLists :
    \E cs \in SeqsUpTo(JoinCondsOf(ts, {"OP_EQ"}) \cup LitCondsK(ts) \cup SelfCondsOf(ts),
                       MaxConds) :
        Query("select", ts, cs, <<TabCol(ts[1], "k")>>, FALSE, NoOrder, TRUE, TRUE, Catalog1)

\* SELECT over three and four tables and their join predicates, under other statistics
InitJoin4 ==
    \E ts \in TableLists4 \cup {s \in TableLists : Len(s) = 3} :
    \E cs \in SeqsUpTo(JoinCondsOf(ts, {"OP_EQ"}), MaxConds) :
    \E cat \in {Catalog1, Catalog2, Catalog3} :
        /\ Len(ts) = 3 => cat # Catalog1
        /\ Len(ts) = 4 => cat # Catalog3
        /\ Query("select", ts, cs, <<TabCol(ts[1], "k")>>, FALSE, NoOrder, TRUE, TRUE, cat)

\* SELECT over joins written with every comparison operator
InitOps ==
    \E ts \in {s \in TableLists : Len(s) >= 2} :
    \E c1 \in JoinCondsOf(ts, {"OP_EQ"}) :
    \E cs \in SeqsUpTo(JoinCondsOf(ts, CompOps), 1) :
        Query("select", ts, <<c1>> \o cs, <<TabCol(ts[1], "k")>>, FALSE, NoOrder,
              TRUE, TRUE, Catalog1)

\* SELECT under the other settings of the join flags
InitFlags ==
    \E ts \in {s \in TableLists : Len(s) >= 2} :
    \E cs \in SeqsUpTo(JoinCondsOf(ts, {"OP_EQ"}), MaxConds) :
    \E nl \in BOOLEAN, sm \in BOOLEAN :
        /\ ~(nl /\ sm)
        /\ Query("select", ts, cs, <<TabCol(ts[1], "k")>>, FALSE, NoOrder, nl, sm, Catalog1)

\* two tables, one join predicate and one literal predicate per table, in any order
InitTwo ==
    \E ts \in {s \in TableLists : Len(s) = 2} :
    \E j \in JoinCondsOf(ts, {"OP_EQ"}) :
    \E cs \in Perms({j, ValCond(TabCol(ts[1], "v"), "OP_GT", 0),
                        ValCond(TabCol(ts[2], "v"), "OP_EQ", 7)}) :
    \E cat \in {Catalog1, Catalog2} :
        Query("select", ts, cs, <<TabCol(ts[1], "k"), TabCol(ts[2], "v")>>, FALSE, NoOrder,
              TRUE, TRUE, cat)

ExpandedCols(ts) == AllCols(ts)

SelectLists(ts) ==
    {[cols |-> ExpandedCols(ts), star |-> TRUE],
     [cols |-> <<TabCol(ts[1], "k")>>, star |-> FALSE],
     [cols |-> <<TabCol(ts[Len(ts)], "v"), TabCol(ts[1], "k")>>, star |-> FALSE]}

\* SELECT with every select list and ORDER BY
InitSelect ==
    \E ts \in {<<"a">>, <<"c">>, <<"a", "b">>, <<"c", "a">>, <<"b", "c", "a">>} :
    \E cs \in SeqsUpTo(LitCondsK(ts) \cup LitCondsV(ts)
                       \cup {ColCond(TabCol(ts[i], "k"), "OP_EQ", TabCol(ts[i + 1], "k")) :
                                i \in 1..(Len(ts) - 1)}, MaxConds) :
    \E sel \in SelectLists(ts) :
    \E ord \in Orders :
        Query("select", ts, cs, sel.cols, sel.star, ord, TRUE, TRUE, Catalog1)

\* DELETE and UPDATE of one table
InitDML ==
    \E k \in {"delete", "update"} :
    \E t \in Tables :
    \E cs \in SeqsUpTo(LitCondsK(<<t>>) \cup LitCondsV(<<t>>) \cup SelfCondsOf(<<t>>), MaxConds) :
        Query(k, <<t>>, cs, <<>>, FALSE, NoOrder, TRUE, TRUE, Catalog1)

Init == InitJoin \/ InitJoin4 \/ InitOps \/ InitFlags \/ InitTwo \/ InitSelect \/ InitDML

----------------------------------------------------------------------------
(* do_planner: DELETE / UPDATE *)

DMLPlan(k, sub, t, cs) == [tag |-> "DML", kind |-> k, subplan |-> sub, tab_name |-> t, conds |-> cs]

PlanDML ==
    /\ pc = "start"
    /\ kind \in {"delete", "update"}
    /\ plan' = DMLPlan(IF kind = "delete" THEN "T_Delete" ELSE "T_Update",
                       MakeScan(tables[1], conds), tables[1], conds)
    /\ pc' = "done"
    /\ UNCHANGED <<tables, conds, queryRest, table_scan_executors, scantbl, joined_tables,
                   join_conds>>

----------------------------------------------------------------------------
(* generate_select_plan *)

LogicalOptimization ==
    /\ pc = "start"
    /\ kind = "select"
    /\ IF Len(tables) <= 2
       THEN tables' = tables
       ELSE \E sorted \in SortedStats(TableStats(tables)) :
                tables' = greedy_join_order_optimization(TableStats(tables), sorted, conds)
    /\ pc' = "logical"
    /\ UNCHANGED <<conds, queryRest, table_scan_executors, scantbl, joined_tables,
                   join_conds, plan>>

\* make_one_rel up to the choice between the seed join and the no-condition root
MakeScans ==
    /\ pc = "logical"
    /\ LET b == BuildScans(tables, conds)
       IN  /\ table_scan_executors' = b.scans
           /\ IF Len(tables) = 1
              THEN /\ plan' = b.scans[1]
                   /\ conds' = b.rest
                   /\ join_conds' = <<>>
                   /\ scantbl' = <<>>
                   /\ pc' = "rel"
              ELSE /\ plan' = NullPlan
                   /\ conds' = <<>>
                   /\ join_conds' = b.rest
                   /\ scantbl' = [i \in DOMAIN tables |-> -1]
                   /\ pc' = "scans"
    /\ UNCHANGED <<tables, queryRest, joined_tables>>

\* the first residual condition becomes the first join
SeedJoin ==
    /\ pc = "scans"
    /\ Len(join_conds) >= 1
    /\ enable_nestedloop_join \/ enable_sortmerge_join
    /\ LET it == Head(join_conds)
           l == pop_scan(scantbl, it.lhs_col.tab_name,
                         [i \in DOMAIN tables |-> ""], table_scan_executors)
           r == pop_scan(l.scantbl, it.rhs_col.tab_name, l.joined, table_scan_executors)
       IN  /\ plan' = JoinPlan(SeedJoinKind(enable_nestedloop_join, enable_sortmerge_join),
                               l.plan, r.plan, <<it>>)
           /\ scantbl' = r.scantbl
           /\ joined_tables' = r.joined
    /\ join_conds' = Tail(join_conds)
    /\ pc' = "extend"
    /\ UNCHANGED <<tables, conds, queryRest, table_scan_executors>>

\* throw RMDBError("No join executor selected!")
SeedError ==
    /\ pc = "scans"
    /\ Len(join_conds) >= 1
    /\ ~enable_nestedloop_join /\ ~enable_sortmerge_join
    /\ LET it == Head(join_conds)
           l == pop_scan(scantbl, it.lhs_col.tab_name,
                         [i \in DOMAIN tables |-> ""], table_scan_executors)
           r == pop_scan(l.scantbl, it.rhs_col.tab_name, l.joined, table_scan_executors)
       IN  /\ scantbl' = r.scantbl
           /\ joined_tables' = r.joined
    /\ pc' = "error"
    /\ UNCHANGED <<tables, conds, queryRest, table_scan_executors, join_conds, plan>>

\* no residual condition: the first scan is the root
SeedNoConds ==
    /\ pc = "scans"
    /\ Len(join_conds) = 0
    /\ plan' = table_scan_executors[1]
    /\ scantbl' = [scantbl EXCEPT ![1] = 1]
    /\ pc' = "fallback"
    /\ UNCHANGED <<tables, conds, queryRest, table_scan_executors, joined_tables, join_conds>>

\* one iteration of the second loop of make_one_rel; l, r: the pop_scan results
ExtendJoinPlan_no_reverse(it, l, r, root) ==
    IF l.plan # NullPlan /\ r.plan # NullPlan
    THEN JoinPlan("T_NestLoop", JoinPlan("T_NestLoop", l.plan, r.plan, <<it>>), root, <<>>)
    ELSE IF l.plan # NullPlan
    THEN JoinPlan("T_NestLoop", l.plan, root, <<it>>)
    ELSE IF r.plan # NullPlan
    THEN JoinPlan("T_NestLoop", r.plan, root, <<it>>)
    ELSE push_conds(it, root).plan

ExtendJoinPlan(it, l, r, root) ==
    IF l.plan # NullPlan /\ r.plan # NullPlan
    THEN JoinPlan("T_NestLoop", JoinPlan("T_NestLoop", l.plan, r.plan, <<it>>), root, <<>>)
    ELSE IF l.plan # NullPlan
    THEN JoinPlan("T_NestLoop", l.plan, root, <<it>>)
    ELSE IF r.plan # NullPlan
    THEN JoinPlan("T_NestLoop", r.plan, root, <<SwapCond(it, swap_op_rel)>>)
    ELSE push_conds(it, root).plan

NotPopped(tbl, joined) == [plan |-> NullPlan, scantbl |-> tbl, joined |-> joined]

ExtendJoin ==
    /\ pc = "extend"
    /\ join_conds # <<>>
    /\ LET it == Head(join_conds)
           l == IF it.lhs_col.tab_name \notin Range(joined_tables)
                THEN pop_scan(scantbl, it.lhs_col.tab_name, joined_tables, table_scan_executors)
                ELSE NotPopped(scantbl, joined_tables)
           r == IF it.rhs_col.tab_name \notin Range(l.joined)
                THEN pop_scan(l.scantbl, it.rhs_col.tab_name, l.joined, table_scan_executors)
                ELSE NotPopped(l.scantbl, l.joined)
       IN  /\ plan' = ExtendJoinPlan(it, l, r, plan)
           /\ scantbl' = r.scantbl
           /\ joined_tables' = r.joined
    /\ join_conds' = Tail(join_conds)
    /\ pc' = "extend"
    /\ UNCHANGED <<tables, conds, queryRest, table_scan_executors>>

\* unused tables are attached by joins without conditions; make_one_rel returns
CartesianFallback ==
    /\ \/ pc = "fallback"
       \/ pc = "extend" /\ join_conds = <<>>
    /\ plan' = Cartesian(1, scantbl, table_scan_executors, plan)
    /\ pc' = "rel"
    /\ UNCHANGED <<tables, conds, queryRest, table_scan_executors, scantbl, joined_tables,
                   join_conds>>

ApplyPredicatePushdown ==
    /\ pc = "rel"
    /\ plan' = push_filters_down(plan)
    /\ pc' = "filtered"
    /\ UNCHANGED <<tables, conds, queryRest, table_scan_executors, scantbl, joined_tables,
                   join_conds>>

ApplyProjectionPushdown ==
    /\ pc = "filtered"
    /\ plan' = apply_projection_pushdown(plan, tables, cols, conds, is_select_star)
    /\ pc' = "projected"
    /\ UNCHANGED <<tables, conds, queryRest, table_scan_executors, scantbl, joined_tables,
                   join_conds>>

GenerateSortPlan ==
    /\ pc = "projected"
    /\ plan' = generate_sort_plan(plan, tables, order)
    /\ pc' = "done"
    /\ UNCHANGED <<tables, conds, queryRest, table_scan_executors, scantbl, joined_tables,
                   join_conds>>

Next ==
    \/ PlanDML
    \/ LogicalOptimization
    \/ MakeScans
    \/ SeedJoin
    \/ SeedError
    \/ SeedNoConds
    \/ ExtendJoin
    \/ CartesianFallback
    \/ ApplyPredicatePushdown
    \/ ApplyProjectionPushdown
    \/ GenerateSortPlan

Spec == Init /\ [][Next]_vars

----------------------------------------------------------------------------
(* Planning the same Query object again *)

\* SELECT over one to three tables with literal and join predicates
InitReplan ==
    \E ts \in {<<"a">>, <<"c">>, <<"a", "b">>, <<"c", "b", "a">>} :
    \E cs \in SeqsUpTo(LitCondsK(ts)
                       \cup {ColCond(TabCol(ts[i], "k"), "OP_EQ", TabCol(ts[i + 1], "k")) :
                                i \in 1..(Len(ts) - 1)}, MaxConds) :
    \E ord \in {NoOrder, OrderBy("v", "OrderBy_ASC")} :
        Query("select", ts, cs, <<TabCol(ts[1], "k")>>, FALSE, ord, TRUE, TRUE, Catalog1)

\* generate_select_plan is called again with the Query the first call worked on
Replan ==
    /\ pc = "done"
    /\ kind = "select"
    /\ first_plan = NullPlan
    /\ first_plan' = plan
    /\ pc' = "start"
    /\ plan' = NullPlan
    /\ table_scan_executors' = <<>>
    /\ scantbl' = <<>>
    /\ joined_tables' = <<>>
    /\ join_conds' = <<>>
    /\ UNCHANGED <<kind, tables, conds, cols, is_select_star, order, enable_nestedloop_join,
                   enable_sortmerge_join, fhs, query0, push_log, greedy, exec, probe>>

NextReplan ==
    \/ LogicalOptimization
    \/ MakeScans
    \/ SeedJoin
    \/ SeedNoConds
    \/ ExtendJoin
    \/ CartesianFallback
    \/ ApplyPredicatePushdown
    \/ ApplyProjectionPushdown
    \/ GenerateSortPlan
    \/ Replan

SpecReplan == InitReplan /\ [][NextReplan]_vars

----------------------------------------------------------------------------
(* Exchange of the two sides of a condition *)

\* a join condition a.k op b.k and one row pair: x is the value of a.k, y of b.k
InitSwap ==
    /\ \E o \in CompOps, x \in -MaxInt..MaxInt, y \in -MaxInt..MaxInt :
          probe = [cond  |-> ColCond(TabCol("a", "k"), o, TabCol("b", "k")),
                   cond0 |-> ColCond(TabCol("a", "k"), o, TabCol("b", "k")),
                   x |-> x, y |-> y, swaps |-> 0]
    /\ kind = "select"
    /\ tables = <<"a", "b">>
    /\ conds = <<>>
    /\ cols = <<>>
    /\ is_select_star = FALSE
    /\ order = NoOrder
    /\ enable_nestedloop_join = TRUE
    /\ enable_sortmerge_join = TRUE
    /\ fhs = Catalog1
    /\ pc = "swap"
    /\ table_scan_executors = <<>>
    /\ scantbl = <<>>
    /\ joined_tables = <<>>
    /\ join_conds = <<>>
    /\ plan = NullPlan
    /\ query0 = [tables |-> <<"a", "b">>, conds |-> <<>>]
    /\ first_plan = NullPlan
    /\ push_log = <<>>
    /\ greedy = NoGreedy
    /\ exec = NoExec

plannerVars == <<kind, tables, conds, cols, is_select_star, order, enable_nestedloop_join,
                 enable_sortmerge_join, fhs, pc, table_scan_executors, scantbl,
                 joined_tables, join_conds, plan, query0, first_plan, push_log, greedy, exec>>

\* the exchange done in the extension loop of make_one_rel
SwapInMakeOneRel ==
    /\ pc = "swap"
    /\ probe.swaps < MaxSwaps
    /\ probe' = [probe EXCEPT !.cond = SwapCond(probe.cond, swap_op_rel), !.swaps = @ + 1]
    /\ UNCHANGED plannerVars

\* the exchange done in push_conds
SwapInPushConds ==
    /\ pc = "swap"
    /\ probe.swaps < MaxSwaps
    /\ probe' = [probe EXCEPT !.cond = SwapCond(probe.cond, swap_op_push), !.swaps = @ + 1]
    /\ UNCHANGED plannerVars

NextSwap == SwapInMakeOneRel \/ SwapInPushConds

SpecSwap == InitSwap /\ [][NextSwap]_vars

\* value of a column of the row pair
ProbeVal(c) == IF c.tab_name = "a" THEN probe.x ELSE probe.y

\* truth of a column-to-column condition on the row pair
EvalCond(c) == EvalOp(c.op, ProbeVal(c.lhs_col), ProbeVal(c.rhs_col))

----------------------------------------------------------------------------
(* push_conds on a join tree *)

RECURSIVE LeavesSeqOf(_)
\* the tables of the scan leaves of a join tree, left to right
LeavesSeqOf(p) ==
    IF p.tag = "Join" THEN LeavesSeqOf(p.left) \o LeavesSeqOf(p.right)
    ELSE <<p.tab_name>>

RECURSIVE TreesOver(_)
\* every tree of joins whose scan leaves are the tables of S, each once
TreesOver(S) ==
    IF Cardinality(S) = 1
    THEN {ScanPlan("T_SeqScan", t, <<>>, <<>>) : t \in S}
    ELSE UNION {{JoinPlan("T_NestLoop", l, r, <<>>) :
                    l \in TreesOver(L), r \in TreesOver(S \ L)} :
                L \in (SUBSET S) \ {{}, S}}

\* trees over the subsets of a, b, c, and the trees with the leaves a, b, c, d
\* in this order
PushTrees ==
    UNION {TreesOver(S) : S \in (SUBSET {"a", "b", "c"}) \ {{}}}
    \cup {t \in TreesOver(Tables) : LeavesSeqOf(t) = <<"a", "b", "c", "d">>}

\* conditions between two distinct tables of the catalog
PushConds == JoinCondsOf(<<"a", "b", "c", "d">>, {"OP_LT"})

InitPush ==
    /\ plan \in PushTrees
    /\ push_log = <<>>
    /\ pc = "push"
    /\ kind = "select"
    /\ tables = <<>>
    /\ conds = <<>>
    /\ cols = <<>>
    /\ is_select_star = FALSE
    /\ order = NoOrder
    /\ enable_nestedloop_join = TRUE
    /\ enable_sortmerge_join = TRUE
    /\ fhs = Catalog1
    /\ table_scan_executors = <<>>
    /\ scantbl = <<>>
    /\ joined_tables = <<>>
    /\ join_conds = <<>>
    /\ query0 = [tables |-> <<>>, conds |-> <<>>]
    /\ first_plan = NullPlan
    /\ greedy = NoGreedy
    /\ exec = NoExec
    /\ probe = NoProbe

\* push_conds(&cond, plan)
PushCondsCall ==
    /\ pc = "push"
    /\ Len(push_log) < MaxPushes
    /\ \E cond \in PushConds :
          LET r == push_conds(cond, plan)
          IN  /\ plan' = r.plan
              /\ push_log' = Append(push_log, [cond |-> cond, res |-> r.res])
    /\ UNCHANGED <<kind, tables, conds, cols, is_select_star, order, enable_nestedloop_join,
                   enable_sortmerge_join, fhs, pc, table_scan_executors, scantbl,
                   joined_tables, join_conds, query0, first_plan, greedy, exec, probe>>

NextPush == PushCondsCall

SpecPush == InitPush /\ [][NextPush]_vars

----------------------------------------------------------------------------
(* greedy_join_order_optimization, statement by statement *)

\* table lists of three entries in which a table name may occur more than once
GreedyLists == [1..3 -> Tables \ {"d"}]

InitGreedy ==
    /\ \E ts \in GreedyLists :
       \E cs \in SeqsUpTo(JoinCondsOf(ts, {"OP_EQ"}), 1) :
          /\ tables = ts
          /\ conds = WithIds(cs)
          /\ query0 = [tables |-> ts, conds |-> WithIds(cs)]
    /\ fhs \in {Catalog2, Catalog3}
    /\ greedy = [NoGreedy EXCEPT !.pc = "call"]
    /\ pc = "greedy"
    /\ kind = "select"
    /\ cols = <<>>
    /\ is_select_star = FALSE
    /\ order = NoOrder
    /\ enable_nestedloop_join = TRUE
    /\ enable_sortmerge_join = TRUE
    /\ table_scan_executors = <<>>
    /\ scantbl = <<>>
    /\ joined_tables = <<>>
    /\ join_conds = <<>>
    /\ plan = NullPlan
    /\ first_plan = NullPlan
    /\ push_log = <<>>
    /\ exec = NoExec
    /\ probe = NoProbe

greedyRest == <<kind, tables, conds, cols, is_select_star, order, enable_nestedloop_join,
                enable_sortmerge_join, fhs, pc, table_scan_executors, scantbl,
                joined_tables, join_conds, plan, query0, first_plan, push_log, exec, probe>>

\* entry for three or more tables: the sort and the two smallest tables
GreedyBegin ==
    /\ greedy.pc = "call"
    /\ \E sorted \in SortedStats(TableStats(tables)) :
          greedy' = [pc |-> "loop", table_stats |-> TableStats(tables), sorted_stats |-> sorted,
                     result |-> <<sorted[1].first, sorted[2].first>>,
                     used_tables |-> {sorted[1].first, sorted[2].first}]
    /\ UNCHANGED greedyRest

\* one iteration of while (used_tables.size() < table_stats.size())
GreedyIteration ==
    /\ greedy.pc = "loop"
    /\ Cardinality(greedy.used_tables) < Len(greedy.table_stats)
    /\ LET best_table == GreedyScan(greedy.table_stats, conds, greedy.used_tables, 1, "", SIZE_MAX)
           rest == {i \in DOMAIN greedy.sorted_stats :
                       greedy.sorted_stats[i].first \notin greedy.used_tables}
       IN  IF best_table # ""
           THEN greedy' = [greedy EXCEPT !.result = Append(@, best_table),
                                         !.used_tables = @ \cup {best_table}]
           ELSE IF rest # {}
           THEN LET t == greedy.sorted_stats[CHOOSE i \in rest : \A j \in rest : i <= j].first
                IN  greedy' = [greedy EXCEPT !.result = Append(@, t),
                                             !.used_tables = @ \cup {t}]
           ELSE greedy' = greedy
    /\ UNCHANGED greedyRest

\* the loop condition fails: return result
GreedyReturn ==
    /\ greedy.pc = "loop"
    /\ Cardinality(greedy.used_tables) >= Len(greedy.table_stats)
    /\ greedy' = [greedy EXCEPT !.pc = "returned"]
    /\ UNCHANGED greedyRest

NextGreedy == GreedyBegin \/ GreedyIteration \/ GreedyReturn

SpecGreedy == InitGreedy /\ [][NextGreedy]_vars

----------------------------------------------------------------------------
(* SeqScanExecutor *)

\* scan_ == nullptr
NullScan == 0

RecordVals == {0, 1, 2}

\* the table file: the values of column v of its records, in file order
Files == UNION {[1..n -> RecordVals] : n \in 0..MaxRecords}

ScanConds ==
    {<<>>,
     <<ValCond(TabCol("a", "v"), "OP_GT", 0)>>,
     <<ValCond(TabCol("a", "v"), "OP_GT", 0), ValCond(TabCol("a", "v"), "OP_NE", 2)>>}

\* RmScan over the file: rid() is the position, is_end() holds behind the last record
RmScan(file) == 1

RmScan_is_end(file, scan) == scan > Len(file)

RmScan_next(scan) == scan + 1

\* fh_->get_record(rid)
get_record(file, rid) == [rid |-> rid, v |-> file[rid]]

eval_conds(fed, rec) == \A i \in DOMAIN fed : EvalOp(fed[i].op, rec.v, fed[i].rhs_val)

SkipToMatch_first_record(file, fed, scan, rid) ==
    IF RmScan_is_end(file, scan) THEN [scan |-> scan, rid |-> rid]
    ELSE [scan |-> scan, rid |-> scan]

RECURSIVE SkipToMatch(_, _, _, _)
\* the loop of beginTuple and nextTuple: while (!scan_->is_end()) { rid_ = scan_->rid(); ... }
SkipToMatch(file, fed, scan, rid) ==
    IF RmScan_is_end(file, scan) THEN [scan |-> scan, rid |-> rid]
    ELSE IF eval_conds(fed, get_record(file, scan)) THEN [scan |-> scan, rid |-> scan]
    ELSE SkipToMatch(file, fed, RmScan_next(scan), scan)

is_end(e) == e.scan = NullScan \/ RmScan_is_end(e.file, e.scan)

\* the fields beginTuple leaves
beginTuple(e) ==
    LET r == SkipToMatch(e.file, e.fed_conds, RmScan(e.file), e.rid)
    IN  [e EXCEPT !.scan = r.scan, !.rid = r.rid]

\* the fields nextTuple leaves when scan_ is set
nextTuple(e) ==
    LET from == IF ~RmScan_is_end(e.file, e.scan) THEN RmScan_next(e.scan) ELSE e.scan
        r == SkipToMatch(e.file, e.fed_conds, from, e.rid)
    IN  [e EXCEPT !.scan = r.scan, !.rid = r.rid]

ExecutorNext_no_begin(e) ==
    [e EXCEPT !.last = [call |-> "Next", threw |-> FALSE,
                        rec |-> IF is_end(e) THEN NullRecord ELSE get_record(e.file, e.rid)]]

\* Next(): the executor after the call, with the record returned
ExecutorNext(e) ==
    LET e1 == IF e.scan = NullScan THEN beginTuple(e) ELSE e
    IN  [e1 EXCEPT !.last = [call |-> "Next", threw |-> FALSE,
                             rec |-> IF is_end(e1) THEN NullRecord
                                     ELSE get_record(e1.file, e1.rid)]]

\* the caller's loop: beginTuple(); while (!is_end()) { Next(); nextTuple(); }
\* driver is "begun" after its beginTuple, "fetched" after its Next, and
\* "off" once the caller has left that loop
Driver(e, call) ==
    CASE e.driver = "" /\ call = "beginTuple" -> "begun"
      [] e.driver = "begun" /\ call = "Next" /\ ~is_end(e) -> "fetched"
      [] e.driver = "fetched" /\ call = "nextTuple" -> "begun"
      [] OTHER -> "off"

Called(e0, e, call) ==
    LET d == Driver(e0, call)
    IN  [e EXCEPT !.tick = 1 - @,
                  !.driver = d,
                  !.yield = IF d = "off" THEN <<>>
                            ELSE IF d = "fetched" THEN Append(@, e.last.rec) ELSE @]

InitExec ==
    /\ \E f \in Files, cs \in ScanConds :
          exec = [NoExec EXCEPT !.file = f, !.fed_conds = cs]
    /\ pc = "exec"
    /\ kind = "select"
    /\ tables = <<"a">>
    /\ conds = <<>>
    /\ cols = <<>>
    /\ is_select_star = FALSE
    /\ order = NoOrder
    /\ enable_nestedloop_join = TRUE
    /\ enable_sortmerge_join = TRUE
    /\ fhs = Catalog1
    /\ table_scan_executors = <<>>
    /\ scantbl = <<>>
    /\ joined_tables = <<>>
    /\ join_conds = <<>>
    /\ plan = NullPlan
    /\ query0 = [tables |-> <<"a">>, conds |-> <<>>]
    /\ first_plan = NullPlan
    /\ push_log = <<>>
    /\ greedy = NoGreedy
    /\ probe = NoProbe

execRest == <<kind, tables, conds, cols, is_select_star, order, enable_nestedloop_join,
              enable_sortmerge_join, fhs, pc, table_scan_executors, scantbl,
              joined_tables, join_conds, plan, query0, first_plan, push_log, greedy, probe>>

CallBeginTuple ==
    /\ pc = "exec"
    /\ exec' = Called(exec, [beginTuple(exec) EXCEPT
                                !.last = [call |-> "beginTuple", threw |-> FALSE,
                                          rec |-> NullRecord]], "beginTuple")
    /\ UNCHANGED execRest

\* nextTuple(): throws InternalError when scan_ == nullptr
CallNextTuple ==
    /\ pc = "exec"
    /\ exec' = Called(exec,
                      IF exec.scan = NullScan
                      THEN [exec EXCEPT !.last = [call |-> "nextTuple", threw |-> TRUE,
                                                  rec |-> NullRecord]]
                      ELSE [nextTuple(exec) EXCEPT
                               !.last = [call |-> "nextTuple", threw |-> FALSE,
                                         rec |-> NullRecord]], "nextTuple")
    /\ UNCHANGED execRest

CallNext ==
    /\ pc = "exec"
    /\ exec' = Called(exec, ExecutorNext(exec), "Next")
    /\ UNCHANGED execRest

NextExec == CallBeginTuple \/ CallNextTuple \/ CallNext

SpecExec == InitExec /\ [][NextExec]_vars

----------------------------------------------------------------------------
(* Plan trees *)

RECURSIVE PlanNodes(_)
\* every node of a plan tree, as the subtree rooted at it
PlanNodes(p) ==
    {p} \cup
    (IF p.tag = "Join" THEN PlanNodes(p.left) \cup PlanNodes(p.right)
     ELSE IF p.tag \in {"Filter", "Projection", "Sort", "DML"} THEN PlanNodes(p.subplan)
     ELSE {})

Leaves(p) == {n.tab_name : n \in {m \in PlanNodes(p) : m.tag = "Scan"}}

RECURSIVE LeavesSeq(_)
\* the scanned tables from left to right
LeavesSeq(p) ==
    IF p.tag = "Scan" THEN <<p.tab_name>>
    ELSE IF p.tag = "Join" THEN LeavesSeq(p.left) \o LeavesSeq(p.right)
    ELSE IF p.tag \in {"Filter", "Projection", "Sort", "DML"} THEN LeavesSeq(p.subplan)
    ELSE <<>>

NodeConds(n) == IF n.tag \in {"Scan", "Filter", "Join"} THEN n.conds ELSE <<>>

CondTables(c) == {c.lhs_col.tab_name} \cup (IF c.is_rhs_val THEN {} ELSE {c.rhs_col.tab_name})

RECURSIVE PlanCondIds(_)
\* the ids of the conditions held in the conds lists of the tree, node by node
PlanCondIds(p) ==
    [i \in DOMAIN NodeConds(p) |-> NodeConds(p)[i].id] \o
    (IF p.tag = "Join" THEN PlanCondIds(p.left) \o PlanCondIds(p.right)
     ELSE IF p.tag \in {"Filter", "Projection", "Sort", "DML"} THEN PlanCondIds(p.subplan)
     ELSE <<>>)

Count(s, x) == Cardinality({i \in DOMAIN s : s[i] = x})

RECURSIVE StripTableProjections(_)
\* the tree without the projections that sit directly on a scan
StripTableProjections(p) ==
    IF p.tag = "Projection" /\ p.subplan.tag = "Scan" THEN p.subplan
    ELSE IF p.tag = "Join"
    THEN [p EXCEPT !.left = StripTableProjections(p.left),
                   !.right = StripTableProjections(p.right)]
    ELSE IF p.tag = "Filter"
    THEN [p EXCEPT !.subplan = StripTableProjections(p.subplan)]
    ELSE p

IsLiteral(c) == c.is_rhs_val
IsSelfRef(c) == ~c.is_rhs_val /\ c.lhs_col.tab_name = c.rhs_col.tab_name
IsJoinCond(c) == ~c.is_rhs_val /\ c.lhs_col.tab_name # c.rhs_col.tab_name

Card0(t) == estimate_table_cardinality(t)

----------------------------------------------------------------------------
(* Properties *)

\* C1: every condition of the input query.conds occurs exactly once among the
\* conds lists of the Scan, Filter and Join nodes of the plan returned by
\* generate_select_plan.
C1_EveryCondExactlyOnce ==
    (pc = "done" /\ kind = "select") =>
        \A i \in DOMAIN query0.conds : Count(PlanCondIds(plan), i) = 1

\* C2: every condition stored on a Scan, Filter or Join node of a plan built
\* for a SELECT names only tables that are scan leaves of that node's subtree.
C2_CondsNameSubtreeTables ==
    (pc \in {"rel", "filtered", "projected", "done"} /\ kind = "select") =>
        \A n \in PlanNodes(plan) : \A i \in DOMAIN NodeConds(n) :
            CondTables(NodeConds(n)[i]) \subseteq Leaves(n)

\* C3: while the seed step and the extension loop build the tree (before the
\* Cartesian fallback), no JoinPlan has a JoinPlan as right child.
C3_RightChildNeverJoin ==
    pc = "extend" =>
        \A n \in PlanNodes(plan) : n.tag = "Join" => n.right.tag # "Join"

AccessPathOf(s) ==
    LET g == get_index_cols(s.tab_name, s.conds)
    IN  IF g.found
        THEN s.kind = "T_IndexScan" /\ s.index_col_names = g.index_col_names
        ELSE s.kind = "T_SeqScan" /\ s.index_col_names = <<>>

\* C4: every scan built by make_one_rel, and the scan built for DELETE and
\* UPDATE, is an IndexScan with the columns output by get_index_cols exactly
\* when get_index_cols returns true for its table and conditions, and a
\* SeqScan with empty index_cols otherwise.
C4_AccessPath ==
    /\ pc \in {"scans", "extend", "fallback", "rel"} =>
          \A i \in DOMAIN table_scan_executors :
              /\ table_scan_executors[i].tab_name = tables[i]
              /\ AccessPathOf(table_scan_executors[i])
    /\ (pc = "done" /\ kind \in {"delete", "update"}) =>
          /\ plan.subplan.tab_name = tables[1]
          /\ plan.subplan.conds = query0.conds
          /\ AccessPathOf(plan.subplan)

\* an IndexScan next to a SeqScan whose candidate columns matched no index
C4_Witness ==
    /\ pc = "scans"
    /\ \E i, j \in DOMAIN table_scan_executors :
          /\ table_scan_executors[i].kind = "T_IndexScan"
          /\ table_scan_executors[j].kind = "T_SeqScan"
          /\ IndexCandidates(table_scan_executors[j].tab_name,
                             table_scan_executors[j].conds) # <<>>

\* C5: apply_projection_pushdown returns a ProjectionPlan with cols equal to
\* query.cols, in the same order, wrapping the plan it was given (which, below
\* that root, differs from the given plan by per-table projections only).
C5_RootProjection ==
    [][pc' = "projected" =>
          /\ plan'.tag = "Projection"
          /\ plan'.sel_cols = cols
          /\ StripTableProjections(plan'.subplan) = plan]_vars

\* a projected multi-table SELECT * plan
C5_Witness ==
    /\ pc = "projected"
    /\ is_select_star
    /\ Len(tables) > 1
    /\ plan.tag = "Projection"
    /\ plan.sel_cols = cols

\* C6: for a SELECT with ORDER BY the plan returned by generate_select_plan has
\* a ProjectionPlan as root and the SortPlan below it.
C6_SortBeneathProjection ==
    (pc = "done" /\ kind = "select" /\ order.has_sort) =>
        /\ plan.tag = "Projection"
        /\ \E n \in PlanNodes(plan.subplan) : n.tag = "Sort"

\* the query has two tables, one join predicate and one literal predicate per table
TwoTableShape ==
    /\ Len(query0.tables) = 2
    /\ Len(query0.conds) = 3
    /\ Cardinality({i \in DOMAIN query0.conds : IsJoinCond(query0.conds[i])}) = 1
    /\ \A t \in Range(query0.tables) :
          \E i \in DOMAIN query0.conds :
              IsLiteral(query0.conds[i]) /\ query0.conds[i].lhs_col.tab_name = t

RECURSIVE Reach(_, _)
\* the tables connected to the set S by the join predicates cs
Reach(S, cs) ==
    LET T == S \cup UNION {JoinGraph(cs, t) : t \in S}
    IN  IF T = S THEN S ELSE Reach(T, cs)

ConnectedByJoins ==
    /\ \A i \in DOMAIN query0.conds : IsJoinCond(query0.conds[i])
    /\ Reach({query0.tables[1]}, query0.conds) = Range(query0.tables)

\* C8: for three or more tables connected by join predicates the tree returned
\* by make_one_rel follows query.tables as ordered by join_order_optimization:
\* the first two tables form the innermost join, each later table is joined
\* above it.
C8_TreeFollowsJoinOrder ==
    (pc = "rel" /\ Len(tables) >= 3 /\ ConnectedByJoins) =>
        /\ LeavesSeq(plan) = tables
        /\ \A n \in PlanNodes(plan) : n.tag = "Join" => n.right.tag = "Scan"

\* C9: in the extension loop a predicate 'new.col op joined.col' (lhs table
\* new, rhs table already joined) is emitted as 'joined.col swap(op) new.col'.
C9_NewLhsSwapped ==
    [][(/\ pc = "extend"
        /\ join_conds # <<>>
        /\ Head(join_conds).lhs_col.tab_name \notin Range(joined_tables)
        /\ Head(join_conds).rhs_col.tab_name \in Range(joined_tables))
       => (/\ plan'.tag = "Join"
           /\ plan'.conds = <<SwapCond(Head(join_conds), swap_op_rel)>>)]_vars

\* C10: the two swap tables agree and are defined on all six operators;
\* exchanging the sides of 'A op B' with swap(op) keeps its truth value for
\* all integers A, B in range, and exchanging twice gives back the condition.
C10_SwapInvolution ==
    pc = "swap" =>
        /\ DOMAIN swap_op_rel = CompOps
        /\ swap_op_rel[probe.cond.op] = swap_op_push[probe.cond.op]
        /\ swap_op_rel[probe.cond.op] \in CompOps
        /\ EvalCond(probe.cond) = EvalCond(probe.cond0)
        /\ probe.swaps = 1 =>
              /\ probe.cond.lhs_col = probe.cond0.rhs_col
              /\ probe.cond.rhs_col = probe.cond0.lhs_col
        /\ probe.swaps % 2 = 0 => probe.cond = probe.cond0

\* 'a.k < b.k' on a row pair that satisfies it, after two exchanges
C10_Witness ==
    /\ pc = "swap"
    /\ probe.swaps = 2
    /\ probe.cond0.op = "OP_LT"
    /\ probe.x < probe.y
    /\ EvalCond(probe.cond)

----------------------------------------------------------------------------
(* Join ordering: stability *)

\* the orders greedy_join_order_optimization can return for the table list ts
GreedyOrders(ts, cs) ==
    {greedy_join_order_optimization(TableStats(ts), sorted, cs) :
        sorted \in SortedStats(TableStats(ts))}

PairwiseDistinctCards(ts) ==
    \A i, j \in DOMAIN ts : i # j => Card0(ts[i]) # Card0(ts[j])

PermsOfSeq(ts) == {[i \in DOMAIN ts |-> ts[p[i]]] : p \in Perms(DOMAIN ts)}

\* with pairwise distinct cardinalities every permutation of the input list is
\* ordered the same way
C11_DistinctCardsPermutationFree ==
    (pc = "logical" /\ Len(query0.tables) >= 3 /\ PairwiseDistinctCards(query0.tables)) =>
        \A q \in PermsOfSeq(query0.tables) : GreedyOrders(q, conds) = {tables}

\* C11: the order returned for three or more tables is the same for every
\* permutation of the input list when the cardinalities are pairwise distinct,
\* and is one fixed order for the given input list when cardinalities tie.
C11_GreedyOrderStable ==
    /\ C11_DistinctCardsPermutationFree
    /\ (pc = "logical" /\ Len(query0.tables) >= 3) =>
          GreedyOrders(query0.tables, conds) = {tables}

----------------------------------------------------------------------------
(* make_one_rel: shape of the tree *)

RECURSIVE JoinCount(_)
\* number of JoinPlan nodes of a tree
JoinCount(p) ==
    IF p.tag = "Join" THEN 1 + JoinCount(p.left) + JoinCount(p.right)
    ELSE IF p.tag \in {"Filter", "Projection", "Sort", "DML"} THEN JoinCount(p.subplan)
    ELSE 0

\* the tables named by the residual (two-table) conditions of the input query
JoinedByCondition ==
    UNION {CondTables(query0.conds[i]) :
              i \in {j \in DOMAIN query0.conds : IsJoinCond(query0.conds[j])}}

\* C12: the plan returned by make_one_rel for n distinct tables has exactly one
\* scan leaf per table of query.tables and n-1 joins; a table no join condition
\* reaches hangs under a join with empty conds.
C12_OneLeafPerTable ==
    (pc = "rel" /\ kind = "select") =>
        /\ Len(LeavesSeq(plan)) = Len(tables)
        /\ Range(LeavesSeq(plan)) = Range(tables)
        /\ JoinCount(plan) = Len(tables) - 1
        /\ Len(tables) >= 2 =>
              \A t \in Range(tables) \ JoinedByCondition :
                  \E n \in PlanNodes(plan) :
                      /\ n.tag = "Join"
                      /\ n.conds = <<>>
                      /\ \/ n.left.tag = "Scan" /\ n.left.tab_name = t
                         \/ n.right.tag = "Scan" /\ n.right.tab_name = t

\* three tables, two of them joined by a condition, the third attached by the
\* Cartesian fallback
C12_Witness ==
    /\ pc = "rel"
    /\ Len(tables) = 3
    /\ JoinedByCondition # {}
    /\ Range(tables) \ JoinedByCondition # {}
    /\ plan.tag = "Join"
    /\ plan.conds = <<>>
    /\ plan.right.tag = "Join"

----------------------------------------------------------------------------
(* Join flags *)

PlanReturned == pc \in {"rel", "filtered", "projected", "done"}

\* C13: with enable_nestedloop_join and enable_sortmerge_join both off, planning
\* a SELECT over two or more tables returns no plan, with or without a join
\* predicate between the tables.
C13_BothOffNoPlan ==
    (kind = "select" /\ Len(tables) >= 2
        /\ ~enable_nestedloop_join /\ ~enable_sortmerge_join) =>
        ~PlanReturned

----------------------------------------------------------------------------
(* Replanning *)

\* the plan of the second call equals the plan of the first call
SecondPlanEqual ==
    (pc = "done" /\ first_plan # NullPlan) => plan = first_plan

\* C14: a second call of generate_select_plan on the same Query object returns
\* a plan equal to the first one, and a call leaves the tables and conds of
\* the Query as it found them.
C14_ReplanSamePlan ==
    /\ SecondPlanEqual
    /\ (pc = "done" /\ kind = "select") =>
          /\ tables = query0.tables
          /\ conds = query0.conds

----------------------------------------------------------------------------
(* get_index_cols: contract *)

\* the result the contract of get_index_cols prescribes for table t and conditions cs
IndexColsContract(t, cs) ==
    LET cand == {cs[i].lhs_col.col_name :
                    i \in {j \in DOMAIN cs : cs[j].lhs_col.tab_name = t /\ cs[j].is_rhs_val}}
        singles == {c \in cand : IsIndex(t, <<c>>)}
    IN  IF singles # {}
        THEN [found |-> TRUE,
              index_col_names |-> <<CHOOSE c \in singles :
                                        \A d \in singles : ColRank(c) <= ColRank(d)>>]
        ELSE IF IsIndex(t, SortedCols(cand))
        THEN [found |-> TRUE, index_col_names |-> SortedCols(cand)]
        ELSE [found |-> FALSE, index_col_names |-> <<>>]

\* C15: get_index_cols returns true with the smallest candidate column that
\* has a single-column index, else true with the whole candidate list if that
\* list is an index, else false with an empty column list.
C15_GetIndexColsContract ==
    pc = "scans" =>
        \A i \in DOMAIN table_scan_executors :
            get_index_cols(tables[i], table_scan_executors[i].conds)
                = IndexColsContract(tables[i], table_scan_executors[i].conds)

\* the same without the column list of the 'false' case
GetIndexColsFound ==
    pc = "scans" =>
        \A i \in DOMAIN table_scan_executors :
            LET g == get_index_cols(tables[i], table_scan_executors[i].conds)
                c == IndexColsContract(tables[i], table_scan_executors[i].conds)
            IN  /\ g.found = c.found
                /\ g.found => g.index_col_names = c.index_col_names

----------------------------------------------------------------------------
(* pop_conds: contract *)

IdsOf(cs) == [i \in DOMAIN cs |-> cs[i].id]

Increasing(s) == \A i, j \in DOMAIN s : i < j => s[i] < s[j]

\* the conditions pop_conds has to hand to table t
Attributable(c, t) ==
    \/ c.lhs_col.tab_name = t /\ c.is_rhs_val
    \/ ~c.is_rhs_val /\ c.lhs_col.tab_name = c.rhs_col.tab_name

\* cs is split into solved and rest as the contract of pop_conds asks
Partitions(cs, t, solved, rest) ==
    /\ Range(solved) = {c \in Range(cs) : Attributable(c, t)}
    /\ Range(rest) = {c \in Range(cs) : ~Attributable(c, t)}
    /\ Len(solved) + Len(rest) = Len(cs)
    /\ Increasing(IdsOf(solved))
    /\ Increasing(IdsOf(rest))

----------------------------------------------------------------------------
(* Join ordering: greedy steps *)

\* some condition compares a column of t with a column of u
JoinEdge(cs, t, u) ==
    \E i \in DOMAIN cs :
        /\ ~cs[i].is_rhs_val
        /\ \/ cs[i].lhs_col.tab_name = t /\ cs[i].rhs_col.tab_name = u
           \/ cs[i].lhs_col.tab_name = u /\ cs[i].rhs_col.tab_name = t

MinCard(t, S) == \A u \in S : Card0(t) <= Card0(u)

\* the table at position k of the order is a greedy choice after the k-1 before it
GreedyStep(ord, cs, k) ==
    LET chosen == {ord[i] : i \in 1..(k - 1)}
        remaining == Range(ord) \ chosen
        connected == {t \in remaining : \E u \in chosen : JoinEdge(cs, t, u)}
    IN  IF connected # {}
        THEN ord[k] \in connected /\ MinCard(ord[k], connected)
        ELSE MinCard(ord[k], remaining)

\* C17: for three or more tables the greedy order starts with the two tables
\* of smallest cardinality in ascending order; every later table has a join
\* edge to an earlier one and is the smallest that does, if any remaining table
\* has such an edge, and is the smallest remaining table otherwise.
C17_GreedySteps ==
    (pc = "logical" /\ Len(query0.tables) >= 3) =>
        /\ Range(tables) = Range(query0.tables)
        /\ Len(tables) = Len(query0.tables)
        /\ MinCard(tables[1], Range(tables))
        /\ MinCard(tables[2], Range(tables) \ {tables[1]})
        /\ \A k \in 3..Len(tables) : GreedyStep(tables, conds, k)

\* four tables: the third one was chosen for its join edge although the fourth
\* is smaller
C17_Witness ==
    /\ pc = "logical"
    /\ Len(tables) = 4
    /\ Card0(tables[4]) < Card0(tables[3])
    /\ \E u \in {tables[1], tables[2]} : JoinEdge(conds, tables[3], u)

----------------------------------------------------------------------------
(* make_one_rel: seed step *)

\* the scan make_one_rel built for table t
ScanOf(t) == table_scan_executors[CHOOSE i \in DOMAIN tables : tables[i] = t]

\* C18: with at least one residual join condition, the first residual
\* condition c becomes JoinPlan(scan of c.lhs table, scan of c.rhs table, [c]),
\* NestLoop if enable_nestedloop_join is on (alone or with the other flag),
\* SortMerge if only enable_sortmerge_join is on; with both off the step
\* raises an error and there is no plan.
C18_SeedJoin ==
    [][(pc = "scans" /\ join_conds # <<>>) =>
          LET c == Head(join_conds)
          IN  IF ~enable_nestedloop_join /\ ~enable_sortmerge_join
              THEN pc' = "error" /\ plan' = NullPlan
              ELSE /\ pc' = "extend"
                   /\ plan' = JoinPlan(IF enable_nestedloop_join THEN "T_NestLoop"
                                       ELSE "T_SortMerge",
                                       ScanOf(c.lhs_col.tab_name),
                                       ScanOf(c.rhs_col.tab_name), <<c>>)]_vars

\* the seed join under enable_sortmerge_join alone
C18_Witness ==
    /\ pc = "extend"
    /\ ~enable_nestedloop_join
    /\ enable_sortmerge_join
    /\ plan.tag = "Join"
    /\ plan.kind = "T_SortMerge"
    /\ plan.left.tag = "Scan"
    /\ plan.right.tag = "Scan"
    /\ Len(plan.conds) = 1
    /\ plan.conds[1].lhs_col.tab_name = plan.left.tab_name

\* C19: while enable_nestedloop_join is false and enable_sortmerge_join is
\* true, no JoinPlan of the tree is a NestLoop join, whichever step added it.
C19_NoNestLoopWhenOff ==
    (kind = "select" /\ ~enable_nestedloop_join /\ enable_sortmerge_join) =>
        \A n \in PlanNodes(plan) : n.tag = "Join" => n.kind # "T_NestLoop"

----------------------------------------------------------------------------
(* push_conds: contract *)

\* the operator that holds for (y, x) exactly when o holds for (x, y)
InvertedOp(o) ==
    CHOOSE q \in CompOps :
        \A x, y \in -MaxInt..MaxInt : EvalOp(q, y, x) = EvalOp(o, x, y)

RECURSIVE AttachAtLowestJoin(_, _)
\* the tree with cond added to the lowest join that has one of cond's tables
\* on each side, sides exchanged if the lhs table is on the right
AttachAtLowestJoin(p, cond) ==
    LET both == {cond.lhs_col.tab_name, cond.rhs_col.tab_name}
    IN  IF p.tag # "Join" THEN p
        ELSE IF both \subseteq Leaves(p.left)
        THEN [p EXCEPT !.left = AttachAtLowestJoin(p.left, cond)]
        ELSE IF both \subseteq Leaves(p.right)
        THEN [p EXCEPT !.right = AttachAtLowestJoin(p.right, cond)]
        ELSE IF cond.lhs_col.tab_name \in Leaves(p.right)
        THEN [p EXCEPT !.conds = Append(@, [cond EXCEPT !.lhs_col = cond.rhs_col,
                                                        !.rhs_col = cond.lhs_col,
                                                        !.op = InvertedOp(cond.op)])]
        ELSE [p EXCEPT !.conds = Append(@, cond)]

\* C20: for a condition between two distinct tables that are both scanned in
\* the tree, push_conds returns 3 and adds the condition to the conds of the
\* lowest join with one of the tables on each side, exchanged if the lhs table
\* is on the right, and changes nothing else; on a tree with only the lhs
\* table it returns 1, with only the rhs table 2, with neither 0, and leaves
\* the tree as it is.
C20_PushConds ==
    [][(pc = "push" /\ Len(push_log') = Len(push_log) + 1) =>
          LET call == push_log'[Len(push_log')]
              l == call.cond.lhs_col.tab_name
              r == call.cond.rhs_col.tab_name
          IN  IF {l, r} \subseteq Leaves(plan)
              THEN /\ call.res = 3
                   /\ plan' = AttachAtLowestJoin(plan, call.cond)
              ELSE /\ plan' = plan
                   /\ call.res = (IF l \in Leaves(plan) THEN 1
                                  ELSE IF r \in Leaves(plan) THEN 2 ELSE 0)]_vars

\* 'd.k < a.k' was pushed into ((a b) c) d and sits, exchanged, on the root;
\* an earlier call left a condition on the innermost join
C20_Witness ==
    /\ pc = "push"
    /\ Len(push_log) = 2
    /\ push_log[2].res = 3
    /\ push_log[2].cond.lhs_col.tab_name = "d"
    /\ plan.tag = "Join"
    /\ Len(plan.conds) = 1
    /\ plan.conds[1].lhs_col.tab_name = "a"
    /\ plan.conds[1].op = "OP_GT"
    /\ plan.left.tag = "Join"
    /\ plan.left.left.tag = "Join"
    /\ plan.left.left.conds # <<>>

----------------------------------------------------------------------------
(* apply_predicate_pushdown *)

FilterNodes(p) == {n \in PlanNodes(p) : n.tag = "Filter"}

ScanNodes(p) == {n \in PlanNodes(p) : n.tag = "Scan"}

\* C21: after apply_predicate_pushdown every literal predicate of the query
\* sits in a FilterPlan whose direct child is the scan of the predicate's lhs
\* table; a scan has at most one FilterPlan, no FilterPlan has a JoinPlan as
\* child, and the scan under a FilterPlan has empty conds and fed_conds.
C21_FiltersAboveScans ==
    (pc = "filtered" /\ kind = "select") =>
        /\ \A i \in DOMAIN query0.conds :
              IsLiteral(query0.conds[i]) =>
                  \E n \in FilterNodes(plan) :
                      /\ n.subplan.tag = "Scan"
                      /\ n.subplan.tab_name = query0.conds[i].lhs_col.tab_name
                      /\ \E j \in DOMAIN n.conds : n.conds[j] = query0.conds[i]
        /\ \A n \in FilterNodes(plan) :
              /\ n.subplan.tag = "Scan"
              /\ n.subplan.conds = <<>>
              /\ n.subplan.fed_conds = <<>>
        /\ \A n, m \in FilterNodes(plan) :
              n.subplan.tab_name = m.subplan.tab_name => n = m

\* a join of two tables that both carry a FilterPlan with their literal
\* predicate
C21_Witness ==
    /\ pc = "filtered"
    /\ plan.tag = "Join"
    /\ plan.left.tag = "Filter"
    /\ plan.right.tag = "Filter"
    /\ plan.left.subplan.tag = "Scan"
    /\ plan.left.conds[1].lhs_col.tab_name = plan.left.subplan.tab_name
    /\ plan.conds # <<>>

\* C22: in every plan returned by apply_predicate_pushdown each ScanPlan has
\* conds equal to fed_conds, and a condition left on a ScanPlan names that
\* scan's own table only.
C22_ScanCondsFedCondsAgree ==
    (pc = "filtered" /\ kind = "select") =>
        \A n \in ScanNodes(plan) :
            /\ n.conds = n.fed_conds
            /\ \A i \in DOMAIN n.conds : CondTables(n.conds[i]) = {n.tab_name}

----------------------------------------------------------------------------
(* apply_projection_pushdown: per-table projections *)

\* the ProjectionPlan nodes of p that sit directly on a scan
TableProjections(p) ==
    {n \in PlanNodes(p) : n.tag = "Projection" /\ n.subplan.tag = "Scan"}

\* the per-table projections of the step from plan to plan': a table has one
\* exactly when Inserted(number of its needed columns, number of its columns)
ProjectionRule(Inserted(_, _)) ==
    LET needed == NeededColumns(cols, conds, plan)
        below == TableProjections(plan'.subplan)
    IN  IF Len(tables) > 1 /\ ~is_select_star /\ Len(cols) > 0
        THEN /\ \A t \in Range(tables) :
                  (\E n \in below : n.subplan.tab_name = t)
                      <=> Inserted(Len(TableNeededCols(needed, t)), Len(TabCols(t)))
             /\ \A n \in below :
                  \A i \in DOMAIN n.sel_cols : n.sel_cols[i].tab_name = n.subplan.tab_name
        ELSE below = {}

StrictlyFewer(n, full) == n < full
SomeButFewer(n, full) == 0 < n /\ n < full

\* C23: for more than one table, not SELECT * and a non-empty select list, a
\* per-table ProjectionPlan is put directly above a table's scan exactly when
\* fewer columns of the table are needed than the table has (none needed
\* included), and it lists columns of that table only; for one table or
\* SELECT * there is no per-table projection.
C23_PerTableProjection ==
    [][pc' = "projected" => ProjectionRule(StrictlyFewer)]_vars

\* C23 as amended: the per-table ProjectionPlan is inserted exactly when at
\* least one column of the table is needed and fewer are needed than the table
\* has; a table of which no column is needed keeps its bare scan.
C23_PerTableProjectionAmended ==
    [][pc' = "projected" => ProjectionRule(SomeButFewer)]_vars

\* two tables: one under a per-table projection, one with every column needed
\* and no projection, one more case with no needed column is in C23's trace
C23_Witness ==
    /\ pc = "projected"
    /\ Len(tables) = 2
    /\ ~is_select_star
    /\ \E n \in TableProjections(plan.subplan) : Len(n.sel_cols) = 1
    /\ \E t \in Range(tables) :
          /\ Len(TableNeededCols(NeededColumns(cols, conds, plan), t)) = Len(TabCols(t))
          /\ \A n \in TableProjections(plan.subplan) : n.subplan.tab_name # t

\* C24: in a multi-table SELECT the needed-column set holds the select
\* columns and the columns of every predicate of the query, so each column
\* that a FilterPlan or JoinPlan condition above a per-table ProjectionPlan
\* reads from that table is listed in that ProjectionPlan.
C24_NeededColumnsCoverPredicates ==
    (pc = "projected" /\ Len(tables) > 1 /\ ~is_select_star /\ Len(cols) > 0) =>
        /\ \A i \in DOMAIN query0.conds :
              CondColumns(query0.conds[i]) \subseteq NeededColumns(cols, conds, plan)
        /\ \A m \in PlanNodes(plan) :
              m.tag \in {"Filter", "Join"} =>
                  \A n \in TableProjections(m) :
                      \A i \in DOMAIN m.conds :
                          \A c \in CondColumns(m.conds[i]) :
                              c.tab_name = n.subplan.tab_name =>
                                  \E j \in DOMAIN n.sel_cols : n.sel_cols[j] = c

----------------------------------------------------------------------------
(* generate_sort_plan *)

HasColumn(t, c) == \E i \in DOMAIN TabCols(t) : TabCols(t)[i] = c

\* the positions in query.tables of the tables that have a column named c
TablesWithColumn(c) == {i \in DOMAIN tables : HasColumn(tables[i], c)}

FloorCardinality(h) ==
    IF ~h.open THEN 1000
    ELSE LET pages == IF h.num_pages <= 1 THEN 0 ELSE h.num_pages - 1
             n == (pages * h.num_records_per_page * 7) \div 10
         IN  IF n >= 1 THEN n ELSE 1

JoinNodes(p) == {n \in PlanNodes(p) : n.tag = "Join"}

\* condition c of Join node n has its lhs table under n.left and its rhs table
\* under n.right
Oriented(n, c) ==
    /\ c.lhs_col.tab_name \in Leaves(n.left)
    /\ c.rhs_col.tab_name \in Leaves(n.right)

\* C27: in the tree make_one_rel returns, every condition stored on a Join
\* node has its lhs table among the scan leaves of the left subtree and its
\* rhs table among the scan leaves of the right subtree.
C27_JoinCondsOriented ==
    (pc = "rel" /\ plan # NullPlan) =>
        \A n \in JoinNodes(plan) : \A i \in DOMAIN n.conds : Oriented(n, n.conds[i])

\* a returned tree over three tables whose root join holds a condition that
\* was written with the newly joined table on its right-hand side, above a
\* seed join that holds the other condition
C27_Witness ==
    /\ pc = "rel"
    /\ plan # NullPlan
    /\ plan.tag = "Join"
    /\ plan.right.tag = "Join"
    /\ Len(plan.right.conds) = 1
    /\ \E i \in DOMAIN query0.conds :
           /\ Len(plan.conds) = 1
           /\ plan.conds[1].id = query0.conds[i].id
           /\ plan.conds[1].lhs_col = query0.conds[i].rhs_col

\* the while loop is at its head with its condition true and an iteration
\* changes nothing: it runs for ever
GreedyLoopsForEver ==
    /\ greedy.pc = "loop"
    /\ Cardinality(greedy.used_tables) < Len(greedy.table_stats)
    /\ \A i \in DOMAIN greedy.table_stats : greedy.table_stats[i].first \in greedy.used_tables

\* C28: greedy_join_order_optimization terminates on every list of three
\* tables, also one that names a table more than once, and what it returns is
\* a permutation of the input list.
C28_GreedyTerminatesWithPermutation ==
    /\ ~GreedyLoopsForEver
    /\ greedy.pc = "returned" =>
           /\ Len(greedy.result) = Len(tables)
           /\ \A t \in Tables : Count(greedy.result, t) = Count(tables, t)

\* the rids of the records of the file that satisfy all scan conditions
MatchRids(e) == {i \in DOMAIN e.file : eval_conds(e.fed_conds, get_record(e.file, i))}

\* those records in file order
MatchingRecords(e) ==
    [k \in 1..Cardinality(MatchRids(e)) |->
        get_record(e.file, CHOOSE i \in MatchRids(e) :
                               Cardinality({j \in MatchRids(e) : j <= i}) = k)]

\* C29: after beginTuple and after every nextTuple either is_end() holds or
\* the record at the current rid satisfies all scan conditions; the loop
\* beginTuple(); while (!is_end()) { Next(); nextTuple(); } yields exactly the
\* satisfying records in file order, each once; and a nextTuple called when
\* is_end() holds leaves it holding.
C29_ScanIteration ==
    [][/\ (exec'.last.call \in {"beginTuple", "nextTuple"} /\ ~exec'.last.threw) =>
              \/ is_end(exec')
              \/ exec'.rid \in MatchRids(exec')
       /\ exec'.driver \in {"begun", "fetched"} =>
              /\ Len(exec'.yield) <= Len(MatchingRecords(exec'))
              /\ \A k \in DOMAIN exec'.yield : exec'.yield[k] = MatchingRecords(exec')[k]
       /\ (exec'.driver = "begun" /\ is_end(exec')) => exec'.yield = MatchingRecords(exec')
       /\ (is_end(exec) /\ exec'.last.call = "nextTuple") => is_end(exec')]_vars

\* the loop has run to its end over a file of three records and has yielded
\* two of them, the second record of the file failing a condition
C29_Witness ==
    /\ exec.driver = "begun"
    /\ exec.last.call = "nextTuple"
    /\ is_end(exec)
    /\ Len(exec.file) = 3
    /\ Len(exec.yield) = 2
    /\ exec.yield[2].rid = 3

\* C30: while no beginTuple has been made is_end() is true, nextTuple raises
\* InternalError and leaves the executor uninitialised, and Next initialises
\* the scan and returns the first satisfying record, or null when there is
\* none; on an initialised executor Next leaves the scan where it is, a Next
\* that follows a Next returns the same record, and Next returns null
\* whenever is_end() is true.
C30_UninitialisedAndNext ==
    [][/\ exec.scan = NullScan => is_end(exec)
       /\ (exec.scan = NullScan /\ exec'.last.call = "nextTuple") =>
              /\ exec'.last.threw
              /\ exec'.scan = NullScan
              /\ exec'.rid = exec.rid
       /\ (exec.scan = NullScan /\ exec'.last.call = "Next") =>
              /\ exec'.scan # NullScan
              /\ exec'.last.rec = IF MatchRids(exec) = {} THEN NullRecord
                                  ELSE MatchingRecords(exec)[1]
       /\ (exec.scan # NullScan /\ exec'.last.call = "Next") =>
              /\ exec'.scan = exec.scan
              /\ exec'.rid = exec.rid
              /\ exec.last.call = "Next" => exec'.last.rec = exec.last.rec
       /\ (exec'.last.call = "Next" /\ is_end(exec')) => exec'.last.rec = NullRecord]_vars

\* Next as the first call on an executor whose first record fails a
\* condition: the scan is initialised and the second record is returned
C30_Witness ==
    /\ exec.last.call = "Next"
    /\ exec.driver = "off"
    /\ exec.tick = 1
    /\ exec.scan = 2
    /\ exec.last.rec = get_record(exec.file, 2)

====
